---- MODULE Spec2Model ----
(***************************************************************************)
(* The annotation layout engine of the burn-up chart system               *)
(* (src/src/chart_generator.py, ChartGenerator).                           *)
(*                                                                         *)
(* calculate_smart_annotation_positions is modelled as a state machine:   *)
(* one call sorts the annotations, groups them one at a time, assigns the *)
(* base positions, and resolves collisions one annotation (and, inside    *)
(* _adjust_position, one candidate height) at a time.  The same input is  *)
(* then handed to a second call.                                          *)
(*                                                                         *)
(* A task is identified by its index in the input list; its end date is a *)
(* day number.  An x_offset is an exact rational <<numerator,             *)
(* denominator>> with a positive denominator.  The code computes offsets  *)
(* and horizontal distances in double precision; on every input drawn by  *)
(* Init (and with every bound raised by one) the double-precision         *)
(* comparison h_dist < 3 and the truncation int(95 - index * step) give   *)
(* the same outcome as exact arithmetic (single clusters of 11, 15 or 21  *)
(* same-day annotations are the smallest inputs where rounding changes a  *)
(* comparison, and they are outside the inputs drawn here).               *)
(***************************************************************************)
EXTENDS Integers, Sequences, FiniteSets, TLC

\* Bounds of the inputs.
MaxLen == 3    \* longest list whose every order and date pattern is drawn
MaxDay == 10   \* end dates of those lists are days 0..MaxDay
MaxRun == 9    \* longest evenly spaced list
MaxGap == 6    \* largest spacing, in days, of an evenly spaced list
MaxSide == 5   \* largest same-day cluster of a two-cluster list
MaxPair == 2   \* largest same-day cluster handed to two concurrent calls
MaxText == 6   \* longest text handed to wrap_text
MaxWidth == 3  \* largest max_length handed to wrap_text
MaxDate == 1   \* record dates and today are days 0..MaxDate
MaxSpan == 3   \* task and filter dates of the date filters are days 0..MaxSpan
MaxGroup == 81 \* largest group size handed to the height and offset tables

VARIABLES
    input,            \* task_annotations: the end date of every task
    pc,               \* position of the running call
    run,              \* 1 during the first call, 2 during the second
    sorted_tasks,     \* _group_annotations: sorted_tasks
    gi,               \* _group_annotations: position of the for loop
    groups,           \* _group_annotations: groups
    positions,        \* the PositionedAnnotation objects of base_positions
    base,             \* history: positions as _assign_base_positions built them
    final_positions,  \* _resolve_collisions: references into positions
    index,            \* _resolve_collisions: position of the for loop
    original_y,       \* _adjust_position: original_y
    cand,             \* _adjust_position: position in adjustments
    y_value,          \* _adjust_position: y_value of the fallback scan
    report,           \* the outcome printed for every annotation
    result,           \* the list the call returned
    prev_result,      \* the list the first call returned
    figure,           \* create_burnup_chart: the shapes and labels added to fig
    other             \* the local variables of a suspended concurrent call

\* wrap_text: a text is the sequence of its characters.
VARIABLES
    text,             \* wrap_text: text
    max_length,       \* wrap_text: max_length
    wpc,              \* position of the running wrap_text call
    words,            \* wrap_text: words
    wi,               \* wrap_text: position of the for loop over words
    word,             \* wrap_text: word, inside the forced break
    lines,            \* wrap_text: lines
    current_line,     \* wrap_text: current_line
    wrapped           \* the text that wrap_text returned

wrap_vars == <<text, max_length, wpc, words, wi, word, lines, current_line,
               wrapped>>

\* DatabaseModel and BurnUpSystem.  A date is a day number; the table holds
\* dates as the texts that isoformat() makes of them.
VARIABLES
    db,               \* the rows of the table daily_progress
    today,            \* BurnUpSystem: self.today
    binding,          \* which insert_progress_record the system calls
    inserted,         \* history: actual_progress of the last insert per key
    op,               \* history: the last call and its arguments
    returned          \* what the last call returned

db_vars == <<db, today, binding, inserted, op, returned>>

\* The date filters of DataFilter and DatabaseModel.
VARIABLES
    sheet,            \* the tasks of the Excel sheet: start and end date
    start_date,       \* the filter's start_date
    end_date,         \* the filter's end_date
    excel_tasks,      \* the tasks filter_by_date_range kept
    db_tasks          \* the list get_filtered_tasks_from_db returned

filter_vars == <<sheet, start_date, end_date, excel_tasks, db_tasks>>

\* _base_heights and _horizontal_offsets called on their own.
VARIABLES
    group_size,       \* the group_size argument
    heights,          \* what _base_heights returned, <<>> before the call
    offsets           \* what _horizontal_offsets returned, <<>> before the call

table_vars == <<group_size, heights, offsets>>

\* The variables that no step of a layout call reads or writes.
outside == <<wrap_vars, db_vars, filter_vars, table_vars>>

layout_vars == <<input, pc, run, sorted_tasks, gi, groups, positions, base,
                 final_positions, index, original_y, cand, y_value, report,
                 result, prev_result, figure, other>>

vars == <<layout_vars, outside>>

Abs(x) == IF x < 0 THEN -x ELSE x

Min(S) == CHOOSE x \in S : \A y \in S : x <= y

Max2(a, b) == IF a >= b THEN a ELSE b

(***************************************************************************)
(* Inputs                                                                  *)
(***************************************************************************)
\* Every list of at most MaxLen end dates in 0..MaxDay, in every order.
DenseInputs == UNION {[1..n -> 0..MaxDay] : n \in 0..MaxLen}

\* n annotations whose consecutive end dates are g days apart.
Ladder(n, g) == [i \in 1..n |-> (i - 1) * g]

LadderInputs == {Ladder(n, g) : n \in 0..MaxRun, g \in 0..MaxGap}

\* Twenty annotations due on the same day.
AdversarialCluster == [i \in 1..20 |-> 0]

\* a annotations due on day 0 followed by b annotations due on day d, the
\* two days more than 5 days apart.
TwoClusters(a, b, d) == [i \in 1..(a + b) |-> IF i <= a THEN 0 ELSE d]

TwoClusterInputs ==
    {TwoClusters(a, b, d) : a \in 1..MaxSide, b \in 1..MaxSide, d \in 6..MaxDay}

\* Five annotations in date order, every consecutive gap one of 0, 1, 2, 5
\* or 6 days.
RECURSIVE FromGaps(_)
FromGaps(gaps) ==
    IF gaps = <<>> THEN <<0>>
    ELSE LET front == FromGaps(SubSeq(gaps, 1, Len(gaps) - 1))
         IN  Append(front, front[Len(front)] + gaps[Len(gaps)])

FiveInputs == {FromGaps(gaps) : gaps \in [1..4 -> {0, 1, 2, 5, 6}]}

\* The lists handed to two concurrent calls: the empty list, same-day
\* clusters, and a list with an annotation that no candidate height frees.
Crowded == FromGaps(<<2, 0, 0, 6>>)

PairInputs == {Ladder(n, 0) : n \in 0..MaxPair} \cup {Crowded}

Inputs ==
    DenseInputs \cup LadderInputs \cup TwoClusterInputs \cup FiveInputs
        \cup {AdversarialCluster}

(***************************************************************************)
(* _group_annotations                                                      *)
(***************************************************************************)
\* Mutant: the annotations are grouped in input order, without the sort.
UnsortedTasks(inp) == [k \in 1..Len(inp) |-> k]

\* Mutant: a sort that puts equal end dates in reverse input order.
SortsBeforeTiesReversed(inp, a, b) ==
    inp[a] < inp[b] \/ (inp[a] = inp[b] /\ a > b)

\* sorted(task_annotations, key=end_date): ascending, ties in input order.
SortsBefore(inp, a, b) == inp[a] < inp[b] \/ (inp[a] = inp[b] /\ a < b)

SortedTasks(inp) ==
    [k \in 1..Len(inp) |->
        CHOOSE t \in 1..Len(inp) :
            Cardinality({u \in 1..Len(inp) : SortsBefore(inp, u, t)}) = k - 1]

\* Mutant: a task is compared with the first member of a group only.
GroupMatchesFirst(inp, group, t) == Abs(inp[t] - inp[group[1]]) <= 5

\* Mutant: a window of a week instead of 5 days.
GroupMatchesWeek(inp, group, t) ==
    \E k \in 1..Len(group) : Abs(inp[t] - inp[group[k]]) <= 7

\* any(abs((task.end_date - existing.end_date).days) <= 5 for existing in group)
GroupMatches(inp, group, t) ==
    \E k \in 1..Len(group) : Abs(inp[t] - inp[group[k]]) <= 5

\* Mutant: the for/else branch only opens the very first group.
JoinGroupNoElse(inp, gs, t) ==
    LET matching == {g \in 1..Len(gs) : GroupMatches(inp, gs[g], t)}
    IN  IF matching = {}
        THEN IF gs = <<>> THEN <<<<t>>>> ELSE gs
        ELSE [gs EXCEPT ![Min(matching)] = Append(@, t)]

\* The body of the loop over sorted_tasks: join the first matching group,
\* else (the for/else branch) open a new group at the end.
JoinGroup(inp, gs, t) ==
    LET matching == {g \in 1..Len(gs) : GroupMatches(inp, gs[g], t)}
    IN  IF matching = {}
        THEN Append(gs, <<t>>)
        ELSE [gs EXCEPT ![Min(matching)] = Append(@, t)]

(***************************************************************************)
(* _base_heights, _horizontal_offsets, _assign_base_positions              *)
(***************************************************************************)
\* Mutant: a step of 90 / group_size, which the clamp at 15 has to catch.
GenericHeightSteep(n, i) == (95 * n - 90 * i) \div n

\* Mutant: the height formula is fed a 1-based index.
GenericHeightOneBased(n, i) == (95 * n - 80 * (i + 1)) \div n

\* int(95 - index * (80 / group_size)) for a 0-based index: the value is
\* positive, so int() is the floor.
GenericHeight(n, i) == (95 * n - 80 * i) \div n

BaseHeights(n) ==
    IF n = 1 THEN <<80>>
    ELSE IF n = 2 THEN <<90, 70>>
    ELSE IF n = 3 THEN <<95, 80, 65>>
    ELSE IF n = 4 THEN <<95, 83, 71, 59>>
    ELSE [i \in 1..n |-> Max2(GenericHeight(n, i - 1), 15)]

\* Mutant: a span of 8 days for the groups of five or more.
HorizontalOffsetsWide(n) ==
    IF n = 1 THEN << <<0, 1>> >>
    ELSE IF n = 2 THEN << <<-1, 1>>, <<1, 1>> >>
    ELSE IF n = 3 THEN << <<-2, 1>>, <<0, 1>>, <<2, 1>> >>
    ELSE IF n = 4 THEN << <<-2, 1>>, <<-7, 10>>, <<7, 10>>, <<2, 1>> >>
    ELSE [i \in 1..n |-> <<8 * (i - 1) - 4 * (n - 1), n - 1>>]

\* span * (index / (group_size - 1)) - span / 2 with span = 6, as a rational.
HorizontalOffsets(n) ==
    IF n = 1 THEN << <<0, 1>> >>
    ELSE IF n = 2 THEN << <<-1, 1>>, <<1, 1>> >>
    ELSE IF n = 3 THEN << <<-2, 1>>, <<0, 1>>, <<2, 1>> >>
    ELSE IF n = 4 THEN << <<-2, 1>>, <<-7, 10>>, <<7, 10>>, <<2, 1>> >>
    ELSE [i \in 1..n |-> <<6 * (i - 1) - 3 * (n - 1), n - 1>>]

\* Mutant: group_id counts from 1.
BasePositionOneBasedId(inp, gs, g, i) ==
    [task     |-> gs[g][i],
     y        |-> BaseHeights(Len(gs[g]))[i],
     x_offset |-> HorizontalOffsets(Len(gs[g]))[i],
     end_date |-> inp[gs[g][i]],
     group_id |-> g]

\* The PositionedAnnotation built for member i of group g (both 1-based
\* here; group_id is the 0-based enumerate index).
BasePosition(inp, gs, g, i) ==
    [task     |-> gs[g][i],
     y        |-> BaseHeights(Len(gs[g]))[i],
     x_offset |-> HorizontalOffsets(Len(gs[g]))[i],
     end_date |-> inp[gs[g][i]],
     group_id |-> g - 1]

RECURSIVE AssignFrom(_, _, _)
AssignFrom(inp, gs, g) ==
    IF g > Len(gs) THEN <<>>
    ELSE [i \in 1..Len(gs[g]) |-> BasePosition(inp, gs, g, i)]
         \o AssignFrom(inp, gs, g + 1)

AssignBasePositions(inp, gs) == AssignFrom(inp, gs, 1)

(***************************************************************************)
(* _check_collision                                                        *)
(***************************************************************************)
\* h_dist = abs(days + pos1.x_offset - pos2.x_offset) over the common
\* denominator d1 * d2.
HDistNum(p1, p2) ==
    Abs((p1.end_date - p2.end_date) * p1.x_offset[2] * p2.x_offset[2]
        + p1.x_offset[1] * p2.x_offset[2]
        - p2.x_offset[1] * p1.x_offset[2])

\* Mutant: a vertical clearance of 20 instead of 30.
CheckCollisionNarrow(p1, p2) ==
    /\ HDistNum(p1, p2) < 3 * p1.x_offset[2] * p2.x_offset[2]
    /\ Abs(p1.y - p2.y) < 20

CheckCollision(p1, p2) ==
    /\ HDistNum(p1, p2) < 3 * p1.x_offset[2] * p2.x_offset[2]
    /\ Abs(p1.y - p2.y) < 30

(***************************************************************************)
(* _adjust_position, _resolve_collisions                                   *)
(***************************************************************************)
\* Mutant: the downward shift of each size is tried before the upward one.
AdjustmentsDownFirst == <<0, -15, 15, -30, 30, -45, 45>>

Adjustments == <<0, 15, -15, 30, -30, 45, -45>>

\* Mutant: the range test of the shift candidates is left out.
InRangeUnchecked(test_y) == TRUE

\* if not 10 <= test_y <= 95: continue
InRange(test_y) == 10 <= test_y /\ test_y <= 95

\* Mutant: a candidate is tested against the annotation finalized last only.
HasCollisionLast(test_y) ==
    CheckCollision([positions[index] EXCEPT !.y = test_y],
                   positions[final_positions[Len(final_positions)]])

\* any(_check_collision(position, existing) for existing in existing_positions)
\* with position.y set to test_y.
HasCollision(test_y) ==
    \E k \in 1..Len(final_positions) :
        CheckCollision([positions[index] EXCEPT !.y = test_y],
                       positions[final_positions[k]])

\* Mutant: collisions are counted against base_positions, the position
\* itself included.
CollisionCountAll ==
    Cardinality({k \in 1..Len(positions) :
        CheckCollision(positions[index], positions[k])})

\* sum(1 for existing in final_positions if _check_collision(position, existing))
CollisionCount ==
    Cardinality({k \in 1..Len(final_positions) :
        CheckCollision(positions[index], positions[final_positions[k]])})

\* Mutant: final_positions outlives the call (a shared list, not a local).
StaleFinalPositions == final_positions

\* final_positions: List[PositionedAnnotation] = []
NewFinalPositions == <<>>

\* groups: List[List[Dict]] = []
NewGroups == <<>>

\* for y_value in range(95, 10, -5): the loop runs while y_value > 10.
ScanContinues(y) == y > 10

\* Mutant: a scan that never goes below 15 and so never leaves its loop.
NextScanValueClamped(y) == Max2(y - 5, 15)

\* The step of range(95, 10, -5).
NextScanValue(y) == y - 5

\* [position.to_dict() for position in final_positions]
ToDicts == [k \in 1..Len(final_positions) |-> positions[final_positions[k]]]

(***************************************************************************)
(* create_burnup_chart: the loop over positioned_annotations               *)
(***************************************************************************)
\* fig = go.Figure()
NewFigure == <<>>

\* No other call is in progress.
NoCall == <<>>

\* timedelta(days=x_offset).days: a timedelta is normalised to whole days
\* and a non-negative rest of seconds and microseconds, so that .days is
\* the floor of x_offset.
WholeDays(x_offset) == x_offset[1] \div x_offset[2]

\* display_date = pos["end_date"] + dt.timedelta(days=pos["x_offset"]):
\* end_date is a date, and a date plus a timedelta is the date moved by the
\* timedelta's .days; its seconds and microseconds are ignored.
DisplayDate(pos) == pos.end_date + WholeDays(pos.x_offset)

\* What the loop adds for one annotation: the dotted line at x0 = x1 =
\* original_datetime and the label at x = display_datetime, y = pos["y"]
\* (datetime.combine(d, datetime.min.time()) is midnight of day d).
Drawn(pos) ==
    [x0 |-> pos.end_date, x |-> DisplayDate(pos), y |-> pos.y]

(***************************************************************************)
(* wrap_text                                                               *)
(***************************************************************************)
Chars == {"a", " "}

Texts == UNION {[1..n -> Chars] : n \in 0..MaxText}

\* The index of the first space of t, 0 when t has none.
FirstSpace(t) ==
    IF \E i \in 1..Len(t) : t[i] = " "
    THEN Min({i \in 1..Len(t) : t[i] = " "})
    ELSE 0

\* text.split(" "): one more word than there are spaces, empty words
\* included.
RECURSIVE Split(_)
Split(t) ==
    IF FirstSpace(t) = 0 THEN <<t>>
    ELSE <<SubSeq(t, 1, FirstSpace(t) - 1)>>
         \o Split(SubSeq(t, FirstSpace(t) + 1, Len(t)))

Br == <<"<", "b", "r", ">">>

\* "<br>".join(ls)
RECURSIVE Join(_)
Join(ls) ==
    IF ls = <<>> THEN <<>>
    ELSE IF Len(ls) = 1 THEN ls[1]
    ELSE ls[1] \o Br \o Join(Tail(ls))

\* A call that returns appends at most one line per character of text;
\* the forced break of a call that does not return is cut off at this many
\* lines.
MaxLines == MaxText + 1

\* current_line + (" " if current_line else "") + word
TestLine(cur, w) == IF cur # <<>> THEN cur \o <<" ">> \o w ELSE w

\* No wrap_text call is in progress.
WrapIdle ==
    /\ text = <<>>
    /\ max_length = 1
    /\ wpc = "idle"
    /\ words = <<>>
    /\ wi = 1
    /\ word = <<>>
    /\ lines = <<>>
    /\ current_line = <<>>
    /\ wrapped = <<>>

(***************************************************************************)
(* DatabaseModel: the table daily_progress                                 *)
(***************************************************************************)
Dates == 0..MaxDate

\* (project_name, task_name) of the tasks.
TaskKeys == {<<"P", "A">>, <<"P", "B">>, <<"Q", "A">>}

\* actual_progress, in hundredths.
Progress == {0, 50}

\* (start_date, end_date) of a task: as planned at first, and as planned
\* later.
FirstSpan == <<0, 0>>

Spans == {FirstSpan, <<0, MaxDate>>}

\* The table is kept to this many rows.
MaxRows == Cardinality(TaskKeys)

\* Python's None, and a value that is not None.
None == <<>>

Some(v) == <<v>>

\* date.isoformat(): a text of fixed width, most significant digit first.
Iso(d) == <<d \div 10, d % 10>>

\* The comparison of two texts of the same length by SQLite.
TextLeq(a, b) == a[1] < b[1] \/ (a[1] = b[1] /\ a[2] <= b[2])

\* The ProgressRecord objects handed to insert_progress_record (assignee,
\* status, show_label and is_backfilled are stored like actual_progress and
\* read by none of the operations below).
Records ==
    {[record_date |-> d, project_name |-> k[1], task_name |-> k[2],
      start_date |-> FirstSpan[1], end_date |-> FirstSpan[2],
      actual_progress |-> a] :
        d \in Dates, k \in TaskKeys, a \in Progress}

\* The values bound to the columns by insert_progress_record.
Row(record) ==
    [record_date     |-> Iso(record.record_date),
     project_name    |-> record.project_name,
     task_name       |-> record.task_name,
     start_date      |-> Iso(record.start_date),
     end_date        |-> Iso(record.end_date),
     actual_progress |-> record.actual_progress]

\* UNIQUE(record_date, project_name, task_name)
Key(row) == <<row.record_date, row.project_name, row.task_name>>

Keys == {<<d, k[1], k[2]>> : d \in Dates, k \in TaskKeys}

\* Mutant: a plain INSERT into a table without the UNIQUE constraint.
InsertPlain(table, row) == table \cup {row}

\* INSERT OR REPLACE: the rows in conflict with the new row are deleted.
InsertOrReplace(table, row) ==
    {x \in table : Key(x) # Key(row)} \cup {row}

\* SELECT actual_progress ... WHERE record_date = ? AND project_name = ?
\* AND task_name = ?, fetchone(): result[0] if result else None
ExistingRecord(table, record_date, project_name, task_name) ==
    LET rows == {x \in table :
                    Key(x) = <<Iso(record_date), project_name, task_name>>}
    IN  IF rows = {} THEN None
        ELSE Some((CHOOSE x \in rows : TRUE).actual_progress)

\* Mutant: WHERE task_name = ?
MatchesTaskOnly(row, project_name, task_name) == row.task_name = task_name

\* WHERE project_name = ? AND task_name = ?
Matches(row, project_name, task_name) ==
    row.project_name = project_name /\ row.task_name = task_name

\* UPDATE daily_progress SET start_date = ?, end_date = ? WHERE ...
UpdatedDates(table, project_name, task_name, new_start_date, new_end_date) ==
    {IF Matches(x, project_name, task_name)
     THEN [x EXCEPT !.start_date = Iso(new_start_date),
                    !.end_date = Iso(new_end_date)]
     ELSE x : x \in table}

\* cursor.rowcount of the UPDATE
RowCount(table, project_name, task_name) ==
    Cardinality({x \in table : Matches(x, project_name, task_name)})

\* Mutant: the check for historical data always succeeds.
HasHistoricalDataAlways(table) == TRUE

\* SELECT COUNT(*) FROM daily_progress; bool(count > 0)
HasHistoricalData(table) == Cardinality(table) > 0

(***************************************************************************)
(* BurnUpSystem.daily_update_safe                                          *)
(*                                                                         *)
(* daily_update_safe hands the fields of the record to                     *)
(* insert_progress_record as keyword arguments; the insert_progress_record *)
(* of database_model.py takes one ProgressRecord.  binding says which      *)
(* insert_progress_record the system runs with: "record" is the one of     *)
(* database_model.py, for which the call raises TypeError before anything  *)
(* is written (daily_update_safe catches it and returns False);            *)
(* "keywords" is the one the call was written for, which binds each        *)
(* keyword to the column of the same name and stores the row in the same   *)
(* way.                                                                    *)
(***************************************************************************)
Bindings == {"record", "keywords"}

\* A row of the sheet that load_project_data returns.
SheetRow(task, a) ==
    [project_name |-> "P", task_name |-> task, start_date |-> 0,
     end_date |-> MaxDate, actual |-> a]

\* The sheets: no row, one row, or a row for each of two tasks.
Sheets ==
    {<<>>}
    \cup {<<SheetRow(t, a)>> : t \in {"A", "B"}, a \in Progress}
    \cup {<<SheetRow("A", a), SheetRow("B", b)>> :
            a \in Progress, b \in Progress}

\* abs(existing_progress - actual_progress) > 0.001, progress in hundredths
ProgressChanged(existing, actual) == Abs(existing - actual) * 10 > 1

\* Mutant: the record is filed under the task's start date.
DailyRecordAtStart(row, day) ==
    [record_date |-> row.start_date, project_name |-> row.project_name,
     task_name |-> row.task_name, start_date |-> row.start_date,
     end_date |-> row.end_date, actual_progress |-> row.actual]

\* The fields handed to insert_progress_record for a row of the sheet.
DailyRecord(row, day) ==
    [record_date |-> day, project_name |-> row.project_name,
     task_name |-> row.task_name, start_date |-> row.start_date,
     end_date |-> row.end_date, actual_progress |-> row.actual]

\* The loop over df.iterrows() from row i on.  st holds the table, the
\* history of the inserts, the counter updates and whether the call of
\* insert_progress_record raised.
RECURSIVE UpdateRows(_, _, _)
UpdateRows(df, i, st) ==
    IF i > Len(df) THEN st
    ELSE LET row == df[i]
             existing_progress ==
                 ExistingRecord(st.table, today, row.project_name,
                                row.task_name)
             record == DailyRecord(row, today)
         IN  IF /\ existing_progress # None
                /\ ~ProgressChanged(existing_progress[1], row.actual)
             THEN UpdateRows(df, i + 1, st)
             ELSE IF binding = "record"
             THEN [st EXCEPT !.raised = TRUE]
             ELSE UpdateRows(df, i + 1,
                     [table    |-> InsertOrReplace(st.table, Row(record)),
                      inserted |-> [st.inserted EXCEPT
                                       ![<<record.record_date,
                                           record.project_name,
                                           record.task_name>>] =
                                           Some(record.actual_progress)],
                      updates  |-> st.updates + 1,
                      raised   |-> FALSE])

(***************************************************************************)
(* The date filters                                                        *)
(***************************************************************************)
SpanDates == 0..MaxSpan

TaskNames == {"A", "B"}

\* The sheets of the date filters: every task at most once, with its
\* start and end date.
FilterSheets ==
    {{[project_name |-> "P", task_name |-> t, start_date |-> f[t][1],
       end_date |-> f[t][2]] : t \in S} :
        S \in SUBSET TaskNames,
        f \in [TaskNames -> {sp \in SpanDates \X SpanDates : sp[1] <= sp[2]}]}

\* The table that holds the tasks of the sheet with the same dates.
Stored(df) ==
    {Row([record_date |-> 0, project_name |-> r.project_name,
          task_name |-> r.task_name, start_date |-> r.start_date,
          end_date |-> r.end_date, actual_progress |-> 0]) : r \in df}

\* filter_by_date_range(df, start_date=s, end_date=e): the rows kept.
FilterByDateRange(df, s, e) ==
    {r \in df : /\ s # None => r.start_date >= s[1]
                /\ e # None => r.end_date <= e[1]}

\* The WHERE clause of get_filtered_tasks_from_db(project_name,
\* start_date=s, end_date=e).
FilterWhere(row, project_name, s, e) ==
    /\ row.project_name = project_name
    /\ s # None => (TextLeq(Iso(s[1]), row.start_date)
                    \/ TextLeq(Iso(s[1]), row.end_date))
    /\ e # None => (TextLeq(row.start_date, Iso(e[1]))
                    \/ TextLeq(row.end_date, Iso(e[1])))

\* The place of a task name in ORDER BY task_name.
NameRank(t) == IF t = "A" THEN 1 ELSE 2

\* SELECT DISTINCT task_name ... ORDER BY task_name, as a list
FilteredTasksFromDb(table, project_name, s, e) ==
    LET names == {x.task_name :
                    x \in {y \in table : FilterWhere(y, project_name, s, e)}}
    IN  CHOOSE q \in [1..Cardinality(names) -> names] :
            \A i, j \in 1..Cardinality(names) :
                i < j => NameRank(q[i]) < NameRank(q[j])

\* No database call is in progress on an empty table.
DbIdle ==
    /\ db = {}
    /\ today = 0
    /\ binding = "record"
    /\ inserted = [k \in Keys |-> None]
    /\ op = [name |-> "none"]
    /\ returned = None

\* No filter was applied.
FilterIdle ==
    /\ sheet = {}
    /\ start_date = None
    /\ end_date = None
    /\ excel_tasks = None
    /\ db_tasks = None

\* Neither table function was called on its own.
TableIdle ==
    /\ group_size = 1
    /\ heights = <<>>
    /\ offsets = <<>>

(***************************************************************************)
(* The state machine                                                       *)
(***************************************************************************)
Init ==
    /\ input \in Inputs
    /\ pc = "start"
    /\ run = 1
    /\ sorted_tasks = <<>>
    /\ gi = 1
    /\ groups = <<>>
    /\ positions = <<>>
    /\ base = <<>>
    /\ final_positions = <<>>
    /\ index = 1
    /\ original_y = 0
    /\ cand = 1
    /\ y_value = 95
    /\ report = <<>>
    /\ result = <<>>
    /\ prev_result = <<>>
    /\ figure = NewFigure
    /\ other = NoCall
    /\ WrapIdle
    /\ TableIdle
    /\ DbIdle
    /\ FilterIdle

\* if not task_annotations: return []
ReturnEmpty ==
    /\ pc = "start"
    /\ input = <<>>
    /\ result' = <<>>
    /\ pc' = "done"
    /\ UNCHANGED <<input, run, sorted_tasks, gi, groups, positions, base,
                   final_positions, index, original_y, cand, y_value,
                   report, prev_result>>
    /\ UNCHANGED <<figure, other, outside>>

\* _group_annotations up to the loop: groups = [], sorted_tasks = sorted(...)
SortTasks ==
    /\ pc = "start"
    /\ input # <<>>
    /\ groups' = NewGroups
    /\ sorted_tasks' = SortedTasks(input)
    /\ gi' = 1
    /\ pc' = "group"
    /\ UNCHANGED <<input, run, positions, base, final_positions, index,
                   original_y, cand, y_value, report, result,
                   prev_result>>
    /\ UNCHANGED <<figure, other, outside>>

\* One iteration of the loop over sorted_tasks.
GroupStep ==
    /\ pc = "group"
    /\ gi <= Len(sorted_tasks)
    /\ groups' = JoinGroup(input, groups, sorted_tasks[gi])
    /\ gi' = gi + 1
    /\ UNCHANGED <<input, pc, run, sorted_tasks, positions, base,
                   final_positions, index, original_y, cand, y_value,
                   report, result, prev_result>>
    /\ UNCHANGED <<figure, other, outside>>

\* _assign_base_positions, and the entry of _resolve_collisions.
AssignBase ==
    /\ pc = "group"
    /\ gi > Len(sorted_tasks)
    /\ positions' = AssignBasePositions(input, groups)
    /\ base' = positions'
    /\ final_positions' = NewFinalPositions
    /\ report' = <<>>
    /\ index' = 1
    /\ pc' = "resolve"
    /\ UNCHANGED <<input, run, sorted_tasks, gi, groups, original_y, cand,
                   y_value, result, prev_result>>
    /\ UNCHANGED <<figure, other, outside>>

\* Mutant: an annotation without a collision is lowered by 5 all the same.
ResolveClearLowered ==
    /\ pc = "resolve"
    /\ index <= Len(positions)
    /\ CollisionCount = 0
    /\ positions' = [positions EXCEPT ![index].y = @ - 5]
    /\ final_positions' = Append(final_positions, index)
    /\ report' = Append(report, "clear")
    /\ index' = index + 1
    /\ UNCHANGED <<input, pc, run, sorted_tasks, gi, groups, base,
                   original_y, cand, y_value, result, prev_result>>
    /\ UNCHANGED <<figure, other, outside>>

\* An iteration of _resolve_collisions that finds no collision.
ResolveClear ==
    /\ pc = "resolve"
    /\ index <= Len(positions)
    /\ CollisionCount = 0
    /\ final_positions' = Append(final_positions, index)
    /\ report' = Append(report, "clear")
    /\ index' = index + 1
    /\ UNCHANGED <<input, pc, run, sorted_tasks, gi, groups, positions, base,
                   original_y, cand, y_value, result, prev_result>>
    /\ UNCHANGED <<figure, other, outside>>

\* An iteration that finds collisions: enter _adjust_position.
EnterAdjust ==
    /\ pc = "resolve"
    /\ index <= Len(positions)
    /\ CollisionCount > 0
    /\ original_y' = positions[index].y
    /\ cand' = 1
    /\ pc' = "shift"
    /\ UNCHANGED <<input, run, sorted_tasks, gi, groups, positions, base,
                   final_positions, index, y_value, report, result,
                   prev_result>>
    /\ UNCHANGED <<figure, other, outside>>

\* Mutant: the accepted candidate also recentres the label on its end date.
AcceptRecentres(y) ==
    /\ positions' = [positions EXCEPT ![index].y = y,
                                      ![index].x_offset = <<0, 1>>]
    /\ final_positions' = Append(final_positions, index)
    /\ report' = Append(report, "adjusted")
    /\ index' = index + 1
    /\ pc' = "resolve"

\* Mutant: the accepted candidate also pushes the annotation finalized last
\* out of its way.
AcceptPushesPrevious(y) ==
    /\ positions' = [positions EXCEPT ![index].y = y,
                                      ![index - 1].y = 10]
    /\ final_positions' = Append(final_positions, index)
    /\ report' = Append(report, "adjusted")
    /\ index' = index + 1
    /\ pc' = "resolve"

\* _adjust_position returned True with position.y = y: the caller appends.
Accept(y) ==
    /\ positions' = [positions EXCEPT ![index].y = y]
    /\ final_positions' = Append(final_positions, index)
    /\ report' = Append(report, "adjusted")
    /\ index' = index + 1
    /\ pc' = "resolve"

\* One iteration of the loop over adjustments.
AdjustShift ==
    /\ pc = "shift"
    /\ cand <= Len(Adjustments)
    /\ LET test_y == original_y + Adjustments[cand]
       IN  IF InRange(test_y) /\ ~HasCollision(test_y)
           THEN /\ Accept(test_y)
                /\ UNCHANGED <<cand, y_value>>
           ELSE /\ cand' = cand + 1
                /\ IF cand = Len(Adjustments)
                   THEN pc' = "scan" /\ y_value' = 95
                   ELSE UNCHANGED <<pc, y_value>>
                /\ UNCHANGED <<positions, final_positions, report, index>>
    /\ UNCHANGED <<input, run, sorted_tasks, gi, groups, base, original_y,
                   result, prev_result>>
    /\ UNCHANGED <<figure, other, outside>>

\* One iteration of the fallback scan.
AdjustScan ==
    /\ pc = "scan"
    /\ ScanContinues(y_value)
    /\ IF ~HasCollision(y_value)
       THEN /\ Accept(y_value)
            /\ UNCHANGED y_value
       ELSE /\ y_value' = NextScanValue(y_value)
            /\ UNCHANGED <<positions, final_positions, report, index, pc>>
    /\ UNCHANGED <<input, run, sorted_tasks, gi, groups, base, original_y,
                   cand, result, prev_result>>
    /\ UNCHANGED <<figure, other, outside>>

\* Mutant: the failed adjustment leaves the last height of the scan.
AdjustFailKeepsTrial ==
    /\ pc = "scan"
    /\ ~ScanContinues(y_value)
    /\ positions' = [positions EXCEPT ![index].y = y_value + 5]
    /\ final_positions' = Append(final_positions, index)
    /\ report' = Append(report, "unable")
    /\ index' = index + 1
    /\ pc' = "resolve"
    /\ UNCHANGED <<input, run, sorted_tasks, gi, groups, base, original_y,
                   cand, y_value, result, prev_result>>
    /\ UNCHANGED <<figure, other, outside>>

\* The scan is exhausted: position.y = original_y, return False; the caller
\* appends the position all the same.
AdjustFail ==
    /\ pc = "scan"
    /\ ~ScanContinues(y_value)
    /\ positions' = [positions EXCEPT ![index].y = original_y]
    /\ final_positions' = Append(final_positions, index)
    /\ report' = Append(report, "unable")
    /\ index' = index + 1
    /\ pc' = "resolve"
    /\ UNCHANGED <<input, run, sorted_tasks, gi, groups, base, original_y,
                   cand, y_value, result, prev_result>>
    /\ UNCHANGED <<figure, other, outside>>

\* The loop of _resolve_collisions is over: return the dictionaries.
Return ==
    /\ pc = "resolve"
    /\ index > Len(positions)
    /\ result' = ToDicts
    /\ pc' = "done"
    /\ UNCHANGED <<input, run, sorted_tasks, gi, groups, positions, base,
                   final_positions, index, original_y, cand, y_value,
                   report, prev_result>>
    /\ UNCHANGED <<figure, other, outside>>

\* The caller hands the same list to the engine again, for a new figure.
\* The variables of the finished call keep their last values: each is
\* assigned by the code before it is read.
CallAgain ==
    /\ pc = "done"
    /\ run = 1
    /\ prev_result' = result
    /\ run' = 2
    /\ pc' = "start"
    /\ UNCHANGED <<input, sorted_tasks, gi, groups, positions, base,
                   final_positions, index, original_y, cand, y_value,
                   report, result>>
    /\ figure' = NewFigure
    /\ UNCHANGED <<other, outside>>

\* create_burnup_chart adds the guide line and the label of every
\* annotation of the list the engine returned.
Render ==
    /\ pc = "done"
    /\ figure' = [k \in 1..Len(result) |-> Drawn(result[k])]
    /\ UNCHANGED <<input, pc, run, sorted_tasks, gi, groups, positions, base,
                   final_positions, index, original_y, cand, y_value,
                   report, result, prev_result, other, outside>>

Next ==
    \/ ReturnEmpty
    \/ SortTasks
    \/ GroupStep
    \/ AssignBase
    \/ ResolveClear
    \/ EnterAdjust
    \/ AdjustShift
    \/ AdjustScan
    \/ AdjustFail
    \/ Return
    \/ Render
    \/ CallAgain

Spec == Init /\ [][Next]_vars

\* Every step of a call is a step of one synchronous computation: a call
\* that can take a step takes it.
FairSpec == Spec /\ WF_vars(Next)

\* One call of calculate_smart_annotation_positions, from its entry to its
\* return.
NextCall ==
    \/ ReturnEmpty
    \/ SortTasks
    \/ GroupStep
    \/ AssignBase
    \/ ResolveClear
    \/ EnterAdjust
    \/ AdjustShift
    \/ AdjustScan
    \/ AdjustFail
    \/ Return

SpecCall == Init /\ [][NextCall]_vars

\* No layout call is in progress.
LayoutIdle ==
    /\ input = <<>>
    /\ pc = "idle"
    /\ run = 1
    /\ sorted_tasks = <<>>
    /\ gi = 1
    /\ groups = <<>>
    /\ positions = <<>>
    /\ base = <<>>
    /\ final_positions = <<>>
    /\ index = 1
    /\ original_y = 0
    /\ cand = 1
    /\ y_value = 95
    /\ report = <<>>
    /\ result = <<>>
    /\ prev_result = <<>>
    /\ figure = NewFigure
    /\ other = NoCall

(***************************************************************************)
(* Two concurrent layout calls                                             *)
(*                                                                         *)
(* A call keeps all its state in local variables and in the               *)
(* PositionedAnnotation objects it creates; ChartGenerator has no          *)
(* attribute and the module no global that a call assigns.  The running    *)
(* call's locals are the layout variables; those of the suspended call are *)
(* in other, and a thread switch exchanges the two.                        *)
(***************************************************************************)
\* The locals of a call that has not taken a step on the list inp.
StartFrame(inp) ==
    [input |-> inp, pc |-> "start", run |-> 1, sorted_tasks |-> <<>>,
     gi |-> 1, groups |-> <<>>, positions |-> <<>>, base |-> <<>>,
     final_positions |-> <<>>, index |-> 1, original_y |-> 0, cand |-> 1,
     y_value |-> 95, report |-> <<>>, result |-> <<>>, prev_result |-> <<>>]

\* The locals of the running call.
Frame ==
    [input |-> input, pc |-> pc, run |-> run, sorted_tasks |-> sorted_tasks,
     gi |-> gi, groups |-> groups, positions |-> positions, base |-> base,
     final_positions |-> final_positions, index |-> index,
     original_y |-> original_y, cand |-> cand, y_value |-> y_value,
     report |-> report, result |-> result, prev_result |-> prev_result]

\* Mutant: final_positions is kept on the ChartGenerator, one list for all
\* calls.
SharedFinalPositions == final_positions

\* final_positions is a local of _resolve_collisions: the resumed call
\* finds its own list.
ResumedFinalPositions == other.final_positions

InitPair ==
    /\ input \in PairInputs
    /\ pc = "start"
    /\ run = 1
    /\ sorted_tasks = <<>>
    /\ gi = 1
    /\ groups = <<>>
    /\ positions = <<>>
    /\ base = <<>>
    /\ final_positions = <<>>
    /\ index = 1
    /\ original_y = 0
    /\ cand = 1
    /\ y_value = 95
    /\ report = <<>>
    /\ result = <<>>
    /\ prev_result = <<>>
    /\ figure = NewFigure
    /\ other \in {StartFrame(inp) : inp \in PairInputs}
    /\ WrapIdle
    /\ TableIdle
    /\ DbIdle
    /\ FilterIdle

\* The interpreter suspends the running call and resumes the other one.
\* The first call is made alone: the other call is started once the first
\* call has returned and its list has been handed to the engine again.
Switch ==
    /\ run = 2 \/ other.run = 2
    /\ other' = Frame
    /\ input' = other.input
    /\ pc' = other.pc
    /\ run' = other.run
    /\ sorted_tasks' = other.sorted_tasks
    /\ gi' = other.gi
    /\ groups' = other.groups
    /\ positions' = other.positions
    /\ base' = other.base
    /\ final_positions' = ResumedFinalPositions
    /\ index' = other.index
    /\ original_y' = other.original_y
    /\ cand' = other.cand
    /\ y_value' = other.y_value
    /\ report' = other.report
    /\ result' = other.result
    /\ prev_result' = other.prev_result
    /\ UNCHANGED <<figure, outside>>

NextPair ==
    \/ ReturnEmpty
    \/ SortTasks
    \/ GroupStep
    \/ AssignBase
    \/ ResolveClear
    \/ EnterAdjust
    \/ AdjustShift
    \/ AdjustScan
    \/ AdjustFail
    \/ Return
    \/ CallAgain
    \/ Switch

SpecPair == InitPair /\ [][NextPair]_vars

(***************************************************************************)
(* The state machine of the database and the daily update                  *)
(***************************************************************************)
\* A DatabaseModel on the empty table that initialize_database creates.
InitDb ==
    /\ LayoutIdle
    /\ WrapIdle
    /\ TableIdle
    /\ FilterIdle
    /\ DbIdle

insert_progress_record(record) ==
    /\ db' = InsertOrReplace(db, Row(record))
    /\ Cardinality(db') <= MaxRows
    /\ inserted' = [inserted EXCEPT
                       ![<<record.record_date, record.project_name,
                           record.task_name>>] = Some(record.actual_progress)]
    /\ op' = [name |-> "insert_progress_record",
              key |-> <<record.record_date, record.project_name,
                        record.task_name>>,
              previous |-> ExistingRecord(db, record.record_date,
                                          record.project_name,
                                          record.task_name)]
    /\ returned' = None
    /\ UNCHANGED <<today, binding>>
    /\ UNCHANGED <<layout_vars, wrap_vars, filter_vars, table_vars>>

update_task_dates(project_name, task_name, new_start_date, new_end_date) ==
    /\ db' = UpdatedDates(db, project_name, task_name, new_start_date,
                          new_end_date)
    /\ returned' = RowCount(db, project_name, task_name)
    /\ op' = [name |-> "update_task_dates"]
    /\ UNCHANGED <<today, binding, inserted>>
    /\ UNCHANGED <<layout_vars, wrap_vars, filter_vars, table_vars>>

get_existing_record(record_date, project_name, task_name) ==
    /\ returned' = ExistingRecord(db, record_date, project_name, task_name)
    /\ op' = [name |-> "get_existing_record"]
    /\ UNCHANGED <<db, today, binding, inserted>>
    /\ UNCHANGED <<layout_vars, wrap_vars, filter_vars, table_vars>>

\* The operations of DatabaseModel on the table.
NextDb ==
    \/ \E record \in Records : insert_progress_record(record)
    \/ \E k \in TaskKeys, sp \in Spans :
            update_task_dates(k[1], k[2], sp[1], sp[2])
    \/ \E k \in Keys : get_existing_record(k[1], k[2], k[3])

SpecDb == InitDb /\ [][NextDb]_vars

\* daily_update_safe(file_path) without a filter; df is the sheet that
\* load_project_data returns and valid what validate_project_data says.
daily_update_safe(df, valid) ==
    /\ LET proceeds == valid /\ HasHistoricalData(db)
           st == UpdateRows(df, 1, [table |-> db, inserted |-> inserted,
                                    updates |-> 0, raised |-> FALSE])
       IN  /\ db' = IF proceeds THEN st.table ELSE db
           /\ inserted' = IF proceeds THEN st.inserted ELSE inserted
           /\ returned' = (proceeds /\ ~st.raised)
           /\ op' = [name |-> "daily_update_safe", valid |-> valid,
                     rows |-> Len(df),
                     updates |-> IF proceeds THEN st.updates ELSE 0]
    /\ Cardinality(db') <= MaxRows
    /\ UNCHANGED <<today, binding>>
    /\ UNCHANGED <<layout_vars, wrap_vars, filter_vars, table_vars>>

\* The daily updates of a system whose table is filled by inserts (by
\* initialize_project, by earlier updates).
NextDaily ==
    \/ \E record \in Records : insert_progress_record(record)
    \/ \E df \in Sheets, valid \in BOOLEAN : daily_update_safe(df, valid)

\* A BurnUpSystem made on some day, with a DatabaseModel on the empty
\* table.
InitDaily ==
    /\ LayoutIdle
    /\ WrapIdle
    /\ TableIdle
    /\ FilterIdle
    /\ db = {}
    /\ today \in Dates
    /\ binding \in Bindings
    /\ inserted = [k \in Keys |-> None]
    /\ op = [name |-> "none"]
    /\ returned = None

SpecDaily == InitDaily /\ [][NextDaily]_vars

(***************************************************************************)
(* The state machine of the date filters                                   *)
(***************************************************************************)
InitFilter ==
    /\ LayoutIdle
    /\ WrapIdle
    /\ TableIdle
    /\ sheet \in FilterSheets
    /\ start_date \in {None} \cup {Some(d) : d \in SpanDates}
    /\ end_date \in {None} \cup {Some(d) : d \in SpanDates}
    /\ excel_tasks = None
    /\ db_tasks = None
    /\ db = Stored(sheet)
    /\ today = 0
    /\ binding = "record"
    /\ inserted = [k \in Keys |-> None]
    /\ op = [name |-> "none"]
    /\ returned = None

\* DataFilter.filter_by_date_range on the sheet: the names of the tasks of
\* the filtered sheet.
filter_by_date_range ==
    /\ excel_tasks = None
    /\ excel_tasks' =
           Some({r.task_name : r \in FilterByDateRange(sheet, start_date,
                                                       end_date)})
    /\ UNCHANGED <<sheet, start_date, end_date, db_tasks>>
    /\ UNCHANGED <<layout_vars, wrap_vars, db_vars, table_vars>>

\* DatabaseModel.get_filtered_tasks_from_db for the project of the sheet.
get_filtered_tasks_from_db ==
    /\ db_tasks = None
    /\ db_tasks' = Some(FilteredTasksFromDb(db, "P", start_date, end_date))
    /\ UNCHANGED <<sheet, start_date, end_date, excel_tasks>>
    /\ UNCHANGED <<layout_vars, wrap_vars, db_vars, table_vars>>

NextFilter ==
    \/ filter_by_date_range
    \/ get_filtered_tasks_from_db

SpecFilter == InitFilter /\ [][NextFilter]_vars

(***************************************************************************)
(* The state machine of wrap_text                                          *)
(***************************************************************************)
InitWrap ==
    /\ LayoutIdle
    /\ TableIdle
    /\ text \in Texts
    /\ max_length \in 1..MaxWidth
    /\ wpc = "call"
    /\ words = <<>>
    /\ wi = 1
    /\ word = <<>>
    /\ lines = <<>>
    /\ current_line = <<>>
    /\ wrapped = <<>>
    /\ DbIdle
    /\ FilterIdle

\* if len(text) <= max_length: return text
WrapShort ==
    /\ wpc = "call"
    /\ Len(text) <= max_length
    /\ wrapped' = text
    /\ wpc' = "returned"
    /\ UNCHANGED <<text, max_length, words, wi, word, lines, current_line>>
    /\ UNCHANGED <<layout_vars, db_vars, filter_vars, table_vars>>

\* words = text.split(" "); lines = []; current_line = ""
WrapSplit ==
    /\ wpc = "call"
    /\ Len(text) > max_length
    /\ words' = Split(text)
    /\ lines' = <<>>
    /\ current_line' = <<>>
    /\ wi' = 1
    /\ wpc' = "loop"
    /\ UNCHANGED <<text, max_length, word, wrapped>>
    /\ UNCHANGED <<layout_vars, db_vars, filter_vars, table_vars>>

\* An iteration of the loop over words, up to the forced break.
WrapWord ==
    /\ wpc = "loop"
    /\ wi <= Len(words)
    /\ LET test_line == TestLine(current_line, words[wi])
       IN  IF Len(test_line) <= max_length
           THEN /\ current_line' = test_line
                /\ wi' = wi + 1
                /\ UNCHANGED <<lines, word, wpc>>
           ELSE IF current_line # <<>>
           THEN /\ lines' = Append(lines, current_line)
                /\ current_line' = words[wi]
                /\ wi' = wi + 1
                /\ UNCHANGED <<word, wpc>>
           ELSE /\ word' = words[wi]
                /\ wpc' = "force"
                /\ UNCHANGED <<lines, current_line, wi>>
    /\ UNCHANGED <<text, max_length, words, wrapped>>
    /\ UNCHANGED <<layout_vars, db_vars, filter_vars, table_vars>>

\* An iteration of: while len(word) > max_length
WrapForce ==
    /\ wpc = "force"
    /\ Len(word) > max_length
    /\ Len(lines) < MaxLines
    /\ lines' = Append(lines, SubSeq(word, 1, max_length))
    /\ word' = SubSeq(word, max_length + 1, Len(word))
    /\ UNCHANGED <<text, max_length, wpc, words, wi, current_line, wrapped>>
    /\ UNCHANGED <<layout_vars, db_vars, filter_vars, table_vars>>

\* The forced break is over: current_line = word
WrapForced ==
    /\ wpc = "force"
    /\ Len(word) <= max_length
    /\ current_line' = word
    /\ wi' = wi + 1
    /\ wpc' = "loop"
    /\ UNCHANGED <<text, max_length, words, word, lines, wrapped>>
    /\ UNCHANGED <<layout_vars, db_vars, filter_vars, table_vars>>

\* if current_line: lines.append(current_line); return "<br>".join(lines)
WrapJoin ==
    /\ wpc = "loop"
    /\ wi > Len(words)
    /\ lines' = IF current_line # <<>> THEN Append(lines, current_line)
                ELSE lines
    /\ wrapped' = Join(lines')
    /\ wpc' = "returned"
    /\ UNCHANGED <<text, max_length, words, wi, word, current_line>>
    /\ UNCHANGED <<layout_vars, db_vars, filter_vars, table_vars>>

NextWrap ==
    \/ WrapShort
    \/ WrapSplit
    \/ WrapWord
    \/ WrapForce
    \/ WrapForced
    \/ WrapJoin

SpecWrap == InitWrap /\ [][NextWrap]_vars

\* wrap_text called with any max_length from 0 on.
InitWrapAny ==
    /\ LayoutIdle
    /\ TableIdle
    /\ DbIdle
    /\ FilterIdle
    /\ text \in Texts
    /\ max_length \in 0..MaxWidth
    /\ wpc = "call"
    /\ words = <<>>
    /\ wi = 1
    /\ word = <<>>
    /\ lines = <<>>
    /\ current_line = <<>>
    /\ wrapped = <<>>

\* The interpreter runs the next statement of a call that has not
\* returned.
FairSpecWrap == InitWrapAny /\ [][NextWrap]_vars /\ WF_vars(NextWrap)

(***************************************************************************)
(* The state machine of _base_heights and _horizontal_offsets              *)
(***************************************************************************)
InitTables ==
    /\ LayoutIdle
    /\ WrapIdle
    /\ DbIdle
    /\ FilterIdle
    /\ group_size \in 1..MaxGroup
    /\ heights = <<>>
    /\ offsets = <<>>

\* heights = cls._base_heights(len(group))
base_heights ==
    /\ heights = <<>>
    /\ heights' = BaseHeights(group_size)
    /\ UNCHANGED <<group_size, offsets>>
    /\ UNCHANGED <<layout_vars, wrap_vars, db_vars, filter_vars>>

\* offsets = cls._horizontal_offsets(len(group))
horizontal_offsets ==
    /\ offsets = <<>>
    /\ offsets' = HorizontalOffsets(group_size)
    /\ UNCHANGED <<group_size, heights>>
    /\ UNCHANGED <<layout_vars, wrap_vars, db_vars, filter_vars>>

NextTables ==
    \/ base_heights
    \/ horizontal_offsets

SpecTables == InitTables /\ [][NextTables]_vars

(***************************************************************************)
(* Properties                                                              *)
(***************************************************************************)
Shifts == {Adjustments[c] : c \in 1..Len(Adjustments)}

\* The outcomes of the annotations of a finished call, by kind.
KeptBase(k) == report[k] = "clear"
Shifted(k) ==
    /\ report[k] = "adjusted"
    /\ (positions[final_positions[k]].y - base[final_positions[k]].y) \in Shifts
    /\ positions[final_positions[k]].y # base[final_positions[k]].y
Scanned(k) ==
    /\ report[k] = "adjusted"
    /\ (positions[final_positions[k]].y - base[final_positions[k]].y) \notin Shifts
Restored(k) == report[k] = "unable"

\* C1: every element of the list a call returns has 10 <= y <= 95.
RangeInvariant ==
    pc = "done" =>
        \A k \in 1..Len(result) : 10 <= result[k].y /\ result[k].y <= 95

\* A returned list holding an untouched base height, a shifted candidate,
\* a fallback-scan value and a restored base height.
RangeWitness ==
    /\ pc = "done"
    /\ \E k \in 1..Len(result) : KeptBase(k)
    /\ \E k \in 1..Len(result) : Shifted(k)
    /\ \E k \in 1..Len(result) : Scanned(k)
    /\ \E k \in 1..Len(result) : Restored(k)

\* C2: the returned list is exactly as long as the input list; an empty
\* input gives an empty list.
SameLength == pc = "done" => Len(result) = Len(input)

\* A call that returned after grouping several annotations into several
\* groups and adjusting some of them.
SameLengthWitness ==
    /\ pc = "done"
    /\ Len(groups) > 1
    /\ Len(result) > Len(groups)
    /\ \E k \in 1..Len(report) : report[k] = "adjusted"

\* C3: the second call on the same input list returns the list the first
\* call returned: the same task, y, x_offset, end_date and group_id at
\* every index.
Determinism == (pc = "done" /\ run = 2) => result = prev_result

\* A second call that returned a list with adjusted and unresolved
\* annotations.
DeterminismWitness ==
    /\ pc = "done"
    /\ run = 2
    /\ \E k \in 1..Len(report) : report[k] = "adjusted"
    /\ \E k \in 1..Len(report) : report[k] = "unable"

\* C4: every call returns: grouping, base assignment and the candidate and
\* fallback search of every annotation finish, for the cluster of twenty
\* same-day annotations as for every other input.
Termination == <>(pc = "done" /\ run = 2)

\* The call on the twenty same-day annotations returned twenty positions,
\* some of them with a residual collision.
TerminationWitness ==
    /\ pc = "done"
    /\ input = AdversarialCluster
    /\ Len(result) = 20
    /\ \E k \in 1..Len(report) : report[k] = "unable"

\* C5: a single annotation is returned with y = 80, x_offset = 0 and
\* group_id = 0, and _adjust_position is never entered for it.
SingleAnnotation ==
    Len(input) = 1 =>
        /\ pc \notin {"shift", "scan"}
        /\ pc = "done" =>
            /\ Len(result) = 1
            /\ result[1].y = 80
            /\ result[1].x_offset[1] = 0
            /\ result[1].group_id = 0
            /\ report = <<"clear">>

\* A call on a single annotation has returned.
SingleAnnotationWitness ==
    /\ pc = "done"
    /\ Len(input) = 1
    /\ Len(result) = 1

\* C6: two annotations with the same end date end up at a vertical
\* distance >= 30 or a horizontal distance >= 3.
SameDatePairApart ==
    (pc = "done" /\ Len(input) = 2 /\ input[1] = input[2]) =>
        \/ Abs(result[1].y - result[2].y) >= 30
        \/ HDistNum(result[1], result[2])
               >= 3 * result[1].x_offset[2] * result[2].x_offset[2]

\* The two same-day annotations collided at their base positions and the
\* second one was moved.
SameDatePairWitness ==
    /\ pc = "done"
    /\ Len(input) = 2
    /\ input[1] = input[2]
    /\ report = <<"clear", "adjusted">>
    /\ result[2].y # base[2].y

\* The groups of the running call are complete.
GroupingDone ==
    \/ pc \in {"resolve", "shift", "scan", "done"}
    \/ pc = "group" /\ gi > Len(sorted_tasks)

\* The base positions of the running call are assigned.
Based == pc \in {"resolve", "shift", "scan", "done"}

Tasks == 1..Len(input)

\* x_offset o equals the rational num / den.
OffsetIs(o, num, den) == o[1] * den = num * o[2]

FiveHeights == <<95, 79, 63, 47, 31>>

\* -3, -1.5, 0, 1.5, 3 in halves of a day.
FiveOffsetHalves == <<-6, -3, 0, 3, 6>>

HasFivePositions(ps) ==
    /\ Len(ps) = 5
    /\ \A k \in 1..5 :
        /\ ps[k].y = FiveHeights[k]
        /\ OffsetIs(ps[k].x_offset, FiveOffsetHalves[k], 2)

MutuallyApart == \A a, b \in Tasks : a # b => Abs(input[a] - input[b]) > 5

\* Every end date but the earliest is at most 5 days after an earlier one.
Chained ==
    \A a \in Tasks :
        \/ \A b \in Tasks : input[a] <= input[b]
        \/ \E b \in Tasks : input[b] < input[a] /\ input[a] - input[b] <= 5

SpacedTwo == \A a, b \in Tasks : a # b => Abs(input[a] - input[b]) >= 2

\* C7 as stated: five annotations mutually more than 5 days apart get base
\* heights [95, 79, 63, 47, 31] and offsets [-3, -1.5, 0, 1.5, 3], which
\* are also their final values.
SpreadFiveGetFormula ==
    (pc = "done" /\ Len(input) = 5 /\ MutuallyApart) =>
        HasFivePositions(base) /\ HasFivePositions(result)

\* C7 as amended: five annotations that chain into one group get base
\* heights [95, 79, 63, 47, 31] and offsets [-3, -1.5, 0, 1.5, 3] in date
\* order; when their end dates are pairwise at least 2 days apart nothing
\* collides and these are the final values.  Five annotations mutually more
\* than 5 days apart are five singleton groups at y = 80, x_offset = 0.
GroupOfFiveGetsFormula ==
    /\ (Based /\ Len(input) = 5 /\ Chained) =>
        /\ HasFivePositions(base)
        /\ (pc = "done" /\ SpacedTwo) =>
            /\ HasFivePositions(result)
            /\ \A k \in 1..5 : report[k] = "clear"
    /\ (pc = "done" /\ Len(input) = 5 /\ MutuallyApart) =>
        \A k \in 1..5 :
            /\ result[k].y = 80
            /\ result[k].x_offset[1] = 0
            /\ result[k].group_id = k - 1

\* A returned group of five whose end dates are unevenly spaced, at least
\* 2 days apart.
GroupOfFiveWitness ==
    /\ pc = "done"
    /\ Len(input) = 5
    /\ Chained
    /\ SpacedTwo
    /\ \E a, b \in Tasks : input[b] - input[a] = 2
    /\ \E a \in Tasks : \A b \in Tasks : Abs(input[b] - input[a]) >= 5 \/ a = b
    /\ result[5].y = 31

\* The place of task t in sorted_tasks.
Place(t) == CHOOSE k \in 1..Len(sorted_tasks) : sorted_tasks[k] = t

Near(t, u) == Abs(input[t] - input[u]) <= 5

GroupMembers ==
    UNION {{groups[g][i] : i \in 1..Len(groups[g])} : g \in 1..Len(groups)}

\* C8: annotations are processed in ascending end-date order; each one is
\* in the first group, in creation order, that held a member within 5 days
\* of it when it was processed, and opened a new last group when there was
\* none; so day offsets {0, 4, 8} form one group of size 3.
GrouperJoinsFirstMatch ==
    pc # "start" =>
        /\ Len(sorted_tasks) = Len(input)
        /\ \A t \in Tasks : \E k \in 1..Len(sorted_tasks) : sorted_tasks[k] = t
        /\ \A k \in 1..(Len(sorted_tasks) - 1) :
            input[sorted_tasks[k]] <= input[sorted_tasks[k + 1]]
        /\ pc = "group" =>
            GroupMembers = {sorted_tasks[k] : k \in 1..(gi - 1)}
        /\ \A g \in 1..Len(groups) : \A i \in 1..Len(groups[g]) :
            LET t == groups[g][i]
            IN  /\ \A h \in 1..(g - 1) : \A j \in 1..Len(groups[h]) :
                    Place(groups[h][j]) < Place(t) => ~Near(t, groups[h][j])
                /\ i > 1 => \E j \in 1..(i - 1) : Near(t, groups[g][j])
                /\ \A j \in 1..(i - 1) : Place(groups[g][j]) < Place(t)
        /\ (GroupingDone /\ {input[t] : t \in Tasks} = {0, 4, 8}
                /\ Len(input) = 3) =>
            Len(groups) = 1 /\ Len(groups[1]) = 3

\* The annotations due on days 8, 0 and 4, in that input order, ended up
\* in one group.
GrouperChainWitness ==
    /\ GroupingDone
    /\ input = <<8, 0, 4>>
    /\ groups = << <<2, 3, 1>> >>

\* The index of the group holding task t.
GroupOf(t) ==
    CHOOSE g \in 1..Len(groups) : \E i \in 1..Len(groups[g]) : groups[g][i] = t

\* No chain of annotations, each within 5 days of the next, leads from a
\* to the later b: some annotation from a's date on and before b's has no
\* annotation in the 5 days after it.
NoBridge(a, b) ==
    \E u \in Tasks :
        /\ input[a] <= input[u]
        /\ input[u] < input[b]
        /\ \A v \in Tasks : ~(input[u] < input[v] /\ input[v] <= input[u] + 5)

\* C9: two annotations more than 5 days apart with no bridging annotation
\* between them are in two distinct groups; day offsets {0, 10} give two
\* singleton groups, created in date order.
UnbridgedAreSeparate ==
    GroupingDone =>
        /\ \A a, b \in Tasks : NoBridge(a, b) => GroupOf(a) # GroupOf(b)
        /\ \A a, b \in Tasks :
            (Len(input) = 2 /\ input[a] = 0 /\ input[b] = 10) =>
                groups = << <<a>>, <<b>> >>

\* The annotations due on days 10 and 0, in that input order, are two
\* singleton groups, day 0 first.
SeparateWitness ==
    /\ GroupingDone
    /\ input = <<10, 0>>
    /\ groups = << <<2>>, <<1>> >>

\* The number of positions built for the groups before group g.
RECURSIVE SizeBefore(_)
SizeBefore(g) == IF g = 1 THEN 0 ELSE SizeBefore(g - 1) + Len(groups[g - 1])

\* The height tables of C10 (i counts from 0), the offsets in tenths of a
\* day for n <= 4.
TableHeights(n) ==
    IF n = 1 THEN <<80>>
    ELSE IF n = 2 THEN <<90, 70>>
    ELSE IF n = 3 THEN <<95, 80, 65>>
    ELSE <<95, 83, 71, 59>>

TableOffsetTenths(n) ==
    IF n = 1 THEN <<0>>
    ELSE IF n = 2 THEN <<-10, 10>>
    ELSE IF n = 3 THEN <<-20, 0, 20>>
    ELSE <<-20, -7, 7, 20>>

\* h = max(15, floor(95 - i * 80 / n)).
IsFormulaHeight(h, n, i) ==
    \E f \in 0..95 :
        /\ f * n <= 95 * n - 80 * i
        /\ 95 * n - 80 * i < (f + 1) * n
        /\ h = IF f < 15 THEN 15 ELSE f

\* C10: member i of the group of size n at index g gets group_id = g, base
\* y = heights_n[i] and x_offset = offsets_n[i], with the tables for
\* n = 1..4 and max(15, floor(95 - i*80/n)) and 6*i/(n-1) - 3 for n >= 5.
BaseFollowsTables ==
    Based =>
        /\ Len(base) = Len(input)
        /\ \A g \in 1..Len(groups) : \A i \in 1..Len(groups[g]) :
            LET n == Len(groups[g])
                p == base[SizeBefore(g) + i]
            IN  /\ p.task = groups[g][i]
                /\ p.end_date = input[groups[g][i]]
                /\ p.group_id = g - 1
                /\ n <= 4 =>
                    /\ p.y = TableHeights(n)[i]
                    /\ OffsetIs(p.x_offset, TableOffsetTenths(n)[i], 10)
                /\ n >= 5 =>
                    /\ IsFormulaHeight(p.y, n, i - 1)
                    /\ OffsetIs(p.x_offset, 6 * (i - 1) - 3 * (n - 1), n - 1)

\* Base positions were assigned to a group of four followed by a group of
\* five or more.
BaseTablesWitness ==
    /\ pc = "resolve"
    /\ index = 1
    /\ Len(groups) = 2
    /\ Len(groups[1]) = 4
    /\ Len(groups[2]) >= 5
    /\ base[5].group_id = 1
    /\ base[5].y = 95

\* The offset the tables of C10 give to member i of a group of n.
IsTableOffset(o, n, i) ==
    IF n <= 4 THEN OffsetIs(o, TableOffsetTenths(n)[i], 10)
    ELSE OffsetIs(o, 6 * (i - 1) - 3 * (n - 1), n - 1)

\* C11: collision resolution changes only y.  While and after the
\* collisions are resolved every position keeps the task, end_date,
\* x_offset and group_id of its base position, and every element of the
\* returned list has the end date of its input task and the offset that
\* its group's offset table gives to its place in the group.
ResolutionChangesOnlyY ==
    Based =>
        /\ Len(positions) = Len(base)
        /\ \A i \in 1..Len(positions) :
            /\ positions[i].task = base[i].task
            /\ positions[i].end_date = input[base[i].task]
            /\ positions[i].x_offset = base[i].x_offset
            /\ positions[i].group_id = base[i].group_id
        /\ pc = "done" =>
            \A k \in 1..Len(result) :
                LET g == result[k].group_id + 1
                IN  /\ result[k].end_date = input[result[k].task]
                    /\ result[k].x_offset = base[final_positions[k]].x_offset
                    /\ IsTableOffset(result[k].x_offset, Len(groups[g]),
                                     final_positions[k] - SizeBefore(g))

\* A returned list in which an annotation with a nonzero offset was moved
\* by a shift, another by the fallback scan (after all seven shifts were
\* refused), and a third tried every candidate and was restored.
OnlyYWitness ==
    /\ pc = "done"
    /\ \E k \in 1..Len(result) : Shifted(k) /\ result[k].x_offset[1] # 0
    /\ \E k \in 1..Len(result) : Scanned(k) /\ result[k].x_offset[1] # 0
    /\ \E k \in 1..Len(result) : Restored(k) /\ result[k].x_offset[1] # 0

\* C12: in the rendered chart the label of every annotation is anchored at
\* end_date plus exactly x_offset days, the fractional part included, and
\* its guide line is at end_date.
LabelAtExactOffset ==
    \A k \in 1..Len(figure) :
        /\ figure[k].x0 = result[k].end_date
        /\ OffsetIs(result[k].x_offset, figure[k].x - result[k].end_date, 1)

\* The index of the first "<br>" of s, 0 when s has none.
FirstBr(s) ==
    IF \E i \in 1..(Len(s) - 3) : SubSeq(s, i, i + 3) = Br
    THEN Min({i \in 1..(Len(s) - 3) : SubSeq(s, i, i + 3) = Br})
    ELSE 0

\* The pieces of s between its "<br>" separators.
RECURSIVE Pieces(_)
Pieces(s) ==
    IF FirstBr(s) = 0 THEN <<s>>
    ELSE <<SubSeq(s, 1, FirstBr(s) - 1)>>
         \o Pieces(SubSeq(s, FirstBr(s) + 4, Len(s)))

\* C13: for every text and every max_length >= 1, every line of the text
\* that wrap_text returns (every piece between "<br>" separators) has at
\* most max_length characters, wherever a token longer than max_length
\* stands in the text.
WrappedLinesFit ==
    wpc = "returned" =>
        \A k \in 1..Len(Pieces(wrapped)) :
            Len(Pieces(wrapped)[k]) <= max_length

\* C14: independent layout calls, each with its own input list, can be
\* interleaved arbitrarily and each returns what it returns when run alone:
\* whatever the other call's list and however the steps of the two calls
\* are interleaved, the call returns the list that it returned for the same
\* input when it ran alone.
InterleavedAsAlone ==
    /\ (pc = "done" /\ run = 2) => result = prev_result
    /\ (other.pc = "done" /\ other.run = 2)
            => other.result = other.prev_result

\* A call on the crowded list returned, for the second time, a list with
\* adjusted and unresolved annotations while a call on another list is
\* suspended in the middle of adjusting an annotation, some of its
\* annotations finalized already.
InterleavedWitness ==
    /\ pc = "done"
    /\ run = 2
    /\ \E k \in 1..Len(report) : report[k] = "adjusted"
    /\ \E k \in 1..Len(report) : report[k] = "unable"
    /\ other.input # input
    /\ other.pc = "shift"
    /\ other.final_positions # <<>>

NoHistoryNoUpdate ==
    [][\A df \in Sheets, valid \in BOOLEAN :
        (/\ db = {}
         /\ op'.name = "daily_update_safe"
         /\ op'.valid = valid
         /\ op'.rows = Len(df)
         /\ daily_update_safe(df, valid)) =>
            (returned' = FALSE /\ db' = {})]_vars

\* daily_update_safe returned False for a valid sheet with two rows, on an
\* empty table, in a system whose insert calls succeed.
NoHistoryWitness ==
    /\ op.name = "daily_update_safe"
    /\ op.valid
    /\ op.rows = 2
    /\ binding = "keywords"
    /\ returned = FALSE
    /\ db = {}

\* C17: insert_progress_record is an insert-or-replace keyed by
\* (record_date, project_name, task_name): after any sequence of inserts
\* the table holds at most one row per key, and get_existing_record
\* returns the actual_progress of the most recent insert for the key, None
\* for a key that was never inserted.
InsertOrReplaceKeyed ==
    /\ [](\A x, y \in db : Key(x) = Key(y) => x = y)
    /\ [](\A k \in Keys :
            ExistingRecord(db, k[1], k[2], k[3]) = inserted[k])
    /\ [][\A k \in Keys :
            (/\ op'.name = "get_existing_record"
             /\ get_existing_record(k[1], k[2], k[3])) =>
                returned' = inserted[k]]_vars

\* The last insert replaced the row of its key, which held another
\* progress; the table is full and some key was never inserted.
InsertReplacedWitness ==
    /\ op.name = "insert_progress_record"
    /\ op.previous # None
    /\ op.previous # inserted[op.key]
    /\ ExistingRecord(db, op.key[1], op.key[2], op.key[3]) = inserted[op.key]
    /\ Cardinality(db) = MaxRows
    /\ \E k \in Keys : inserted[k] = None

\* C18: update_task_dates(project, task, s, e) returns the number of rows
\* whose project_name and task_name match, sets start_date = s and
\* end_date = e on exactly those rows, whatever their record_date, and
\* leaves every other row, and the record_date and actual_progress of the
\* matched rows, as they were.
UpdateTouchesMatches ==
    [][\A k \in TaskKeys, sp \in Spans :
        (/\ op'.name = "update_task_dates"
         /\ update_task_dates(k[1], k[2], sp[1], sp[2])) =>
            LET matched == {r \in db : r.project_name = k[1]
                                        /\ r.task_name = k[2]}
            IN  /\ returned' = Cardinality(matched)
                /\ Cardinality(db') = Cardinality(db)
                /\ \A r \in db \ matched : r \in db'
                /\ \A r \in matched :
                       [record_date     |-> r.record_date,
                        project_name    |-> r.project_name,
                        task_name       |-> r.task_name,
                        start_date      |-> Iso(sp[1]),
                        end_date        |-> Iso(sp[2]),
                        actual_progress |-> r.actual_progress] \in db']_vars

\* update_task_dates returned 2: two rows of one task, of different record
\* dates and with different progress, have the later dates, and the row of
\* another task still has the dates it was inserted with.
UpdateWitness ==
    /\ op.name = "update_task_dates"
    /\ returned = 2
    /\ \E x, y, z \in db :
        /\ x.project_name = y.project_name /\ x.task_name = y.task_name
        /\ x.record_date # y.record_date
        /\ x.actual_progress # y.actual_progress
        /\ x.end_date = Iso(MaxDate) /\ y.end_date = Iso(MaxDate)
        /\ z.task_name = x.task_name /\ z.project_name # x.project_name
        /\ z.end_date = Iso(FirstSpan[2])

\* C19: for the same start_date/end_date filter, and a table that holds
\* the tasks of the sheet with the same start and end dates, a task is
\* kept by filter_by_date_range if and only if get_filtered_tasks_from_db
\* returns it.
FiltersAgree ==
    (excel_tasks # None /\ db_tasks # None) =>
        \A t \in TaskNames :
            t \in excel_tasks[1]
                <=> \E i \in 1..Len(db_tasks[1]) : db_tasks[1][i] = t

\* The order of the shifts as the claim gives it.
ClaimedShifts == <<0, 15, -15, 30, -30, 45, -45>>

\* The k-th annotation at height y collides with no annotation finalized
\* before it.
FreeAt(k, y) ==
    \A j \in 1..(k - 1) :
        ~CheckCollision([positions[k] EXCEPT !.y = y], positions[j])

\* The candidates base_y + shift that are inside [10, 95] and free.
Eligible(k) ==
    {c \in 1..Len(ClaimedShifts) :
        /\ 10 <= base[k].y + ClaimedShifts[c]
        /\ base[k].y + ClaimedShifts[c] <= 95
        /\ FreeAt(k, base[k].y + ClaimedShifts[c])}

FirstEligible(k) == CHOOSE c \in Eligible(k) : \A d \in Eligible(k) : c <= d

\* C20: an annotation that collided with a finalized annotation, and for
\* which some candidate base_y + shift of 0, +15, -15, +30, -30, +45, -45
\* lies in [10, 95] and collides with no annotation finalized before it,
\* is returned at the first such candidate in that order; while the
\* resolver is in the loop, every candidate before the current one was
\* outside [10, 95] or collided.
FirstFreeShiftAccepted ==
    /\ pc = "done" =>
           \A k \in 1..Len(report) :
               (report[k] # "clear" /\ Eligible(k) # {}) =>
                   positions[k].y = base[k].y + ClaimedShifts[FirstEligible(k)]
    /\ pc = "shift" =>
           /\ original_y = base[index].y
           /\ \A c \in Eligible(index) : c >= cand

\* A finished call with an annotation finalized at a shifted candidate
\* after an earlier candidate collided and another one was skipped as out
\* of range, while a later candidate and a value of the scan, different
\* from the accepted height, were free as well.
FirstFreeShiftWitness ==
    /\ pc = "done"
    /\ \E k \in 1..Len(report) :
        /\ report[k] = "adjusted"
        /\ Eligible(k) # {}
        /\ positions[k].y = base[k].y + ClaimedShifts[FirstEligible(k)]
        /\ \E c \in 2..(FirstEligible(k) - 1) :
               base[k].y + ClaimedShifts[c] > 95
        /\ \E c \in 2..(FirstEligible(k) - 1) :
               /\ base[k].y + ClaimedShifts[c] >= 10
               /\ base[k].y + ClaimedShifts[c] <= 95
               /\ ~FreeAt(k, base[k].y + ClaimedShifts[c])
        /\ \E c \in Eligible(k) : c > FirstEligible(k)
        /\ \E n \in 0..16 :
               /\ 95 - 5 * n # positions[k].y
               /\ FreeAt(k, 95 - 5 * n)

\* The values of the fallback scan as the claim gives them: 95 down to 10.
ClaimedScan == {95 - 5 * n : n \in 0..17}

\* The scan values at which the k-th annotation collides with no annotation
\* finalized before it.
ScanFree(k) == {y \in ClaimedScan : FreeAt(k, y)}

\* C21: an annotation that collided, and for which no shift candidate is
\* in range and free, is returned at the highest free value of 95, 90,
\* ..., 15, 10 and reported as adjusted; so when 10 is the only free value
\* it is returned at y = 10.
ScanReachesTen ==
    pc = "done" =>
        \A k \in 1..Len(report) :
            (report[k] # "clear" /\ Eligible(k) = {} /\ ScanFree(k) # {}) =>
                /\ report[k] = "adjusted"
                /\ positions[k].y \in ScanFree(k)
                /\ \A y \in ScanFree(k) : y <= positions[k].y

\* The heights the fallback scan tests.
TriedScan == {95 - 5 * n : n \in 0..16}

\* No shift candidate and no tested scan value frees the k-th annotation.
NothingFree(k) ==
    /\ Eligible(k) = {}
    /\ \A y \in TriedScan : ~FreeAt(k, y)

\* C22: an annotation that collided and that neither a shift candidate nor
\* a value of the scan frees is returned at its base height, is reported
\* as not adjusted, and is in the finalized list and in the returned list
\* at its place all the same; the annotations without such a failure are
\* not reported as failed.
FailureRestoresBase ==
    pc = "done" =>
        /\ Len(final_positions) = Len(positions)
        /\ \A k \in 1..Len(report) :
            /\ (report[k] # "clear" /\ NothingFree(k)) =>
                   /\ report[k] = "unable"
                   /\ positions[k].y = base[k].y
                   /\ final_positions[k] = k
                   /\ result[k].y = base[k].y
                   /\ result[k].task = base[k].task
            /\ report[k] = "unable" => NothingFree(k)

\* A finished call with an annotation that no height frees, y = 10
\* included: it is returned at its base height, still colliding with an
\* earlier annotation, and annotations after it were processed.
FailureWitness ==
    /\ pc = "done"
    /\ \E k \in 1..(Len(report) - 1) :
        /\ report[k] = "unable"
        /\ NothingFree(k)
        /\ ~FreeAt(k, 10)
        /\ result[k].y = base[k].y
        /\ ~FreeAt(k, positions[k].y)
        /\ report[k + 1] = "adjusted"

\* h is the height of member i (counted from 1) of a group of n.
IsGroupHeight(h, n, i) ==
    IF n <= 4 THEN h = TableHeights(n)[i] ELSE IsFormulaHeight(h, n, i - 1)

\* C23: an annotation whose base position collides with no annotation
\* finalized before it keeps its base y: it is returned at the height of
\* its place in the height table of its group, and is not reported as
\* adjusted or failed.
ClearKeepsBase ==
    pc = "done" =>
        \A g \in 1..Len(groups) : \A i \in 1..Len(groups[g]) :
            LET k == SizeBefore(g) + i
            IN  FreeAt(k, base[k].y) =>
                    /\ report[k] = "clear"
                    /\ positions[k].y = base[k].y
                    /\ IsGroupHeight(result[k].y, Len(groups[g]), i)
                    /\ result[k].task = groups[g][i]

\* A finished call where an annotation of a group of five or more kept
\* its base height after an earlier member of the group was moved, and a
\* later member was moved as well.
ClearWitness ==
    /\ pc = "done"
    /\ \E g \in 1..Len(groups) : \E i \in 3..Len(groups[g]) :
        LET k == SizeBefore(g) + i
        IN  /\ Len(groups[g]) >= 5
            /\ FreeAt(k, base[k].y)
            /\ result[k].y = base[k].y
            /\ result[k].y < 95
            /\ \E j \in (SizeBefore(g) + 1)..(k - 1) : report[j] = "adjusted"
            /\ \E j \in (k + 1)..Len(report) : report[j] = "adjusted"

\* C24: an annotation in the finalized list keeps its y, x_offset and
\* group_id (its whole record) for the rest of the call, and stays at its
\* place in the list: a step of the resolver, a trial of a candidate and
\* its roll-back included, changes at most the annotation being
\* processed.
FinalizedNeverChange ==
    [][Len(final_positions') >= Len(final_positions) =>
        /\ \A k \in 1..Len(final_positions) :
            /\ final_positions'[k] = final_positions[k]
            /\ positions'[final_positions[k]] = positions[final_positions[k]]
        /\ pc \in {"resolve", "shift", "scan"} =>
            /\ Len(positions') = Len(positions)
            /\ \A k \in 1..Len(positions) :
                   k # index => positions'[k] = positions[k]]_vars

\* A finished call in which, after an annotation was finalized at a
\* shifted height, one later annotation went through the shifts and the
\* scan and was placed, and another went through both and was restored.
FinalizedWitness ==
    /\ pc = "done"
    /\ \E k \in 1..Len(report) :
        /\ Shifted(k)
        /\ \E j \in (k + 1)..Len(report) : Scanned(j)
        /\ \E j \in (k + 1)..Len(report) : Restored(j)
        /\ result[k].y = positions[final_positions[k]].y

\* C25: the report of an adjustment is sound and complete: an annotation
\* reported as adjusted collides, at the y it is returned with, with no
\* annotation before it, and one reported as failed does collide with an
\* annotation before it; so every colliding pair of the returned list has
\* a later member that was reported as failed, and a list without a
\* reported failure is free of collisions.
ReportIsSound ==
    pc = "done" =>
        /\ \A k \in 1..Len(report) :
            /\ report[k] = "adjusted" => FreeAt(k, positions[k].y)
            /\ report[k] = "unable" => ~FreeAt(k, positions[k].y)
        /\ \A j, k \in 1..Len(result) :
               (j < k /\ (CheckCollision(result[k], result[j])
                            \/ CheckCollision(result[j], result[k])))
                   => report[k] = "unable"
        /\ (\A k \in 1..Len(report) : report[k] # "unable") =>
               \A j, k \in 1..Len(result) :
                   j # k => ~CheckCollision(result[j], result[k])

\* A returned list with two annotations reported as failed, each colliding
\* with an earlier annotation, and annotations reported as adjusted by a
\* shift and by the scan before and between them.
ReportWitness ==
    /\ pc = "done"
    /\ \E j, k \in 1..Len(report) :
        /\ j < k
        /\ report[j] = "unable" /\ report[k] = "unable"
        /\ \E i \in 1..(k - 1) : CheckCollision(result[k], result[i])
        /\ \E i \in 1..(j - 1) : Scanned(i)
        /\ \E i \in (j + 1)..(k - 1) : Shifted(i) \/ Scanned(i)

\* C26: the groups are the maximal runs of the date-sorted annotations in
\* which consecutive end dates differ by at most 5 days: the groups, one
\* after the other, are the sorted list; consecutive members of a group
\* are at most 5 days apart and a group starts more than 5 days after the
\* end of the group before it; two annotations share a group exactly when
\* the end dates between them leave no gap of more than 5 days, which
\* depends on the set of end dates only; and while the groups are built
\* the annotation processed last is the last member of the group created
\* last.
GroupsAreMaximalRuns ==
    /\ (pc = "group" /\ gi > Len(sorted_tasks)) =>
        /\ \A g \in 1..Len(groups) :
            /\ Len(groups[g]) >= 1
            /\ \A i \in 1..Len(groups[g]) :
                   groups[g][i] = sorted_tasks[SizeBefore(g) + i]
            /\ \A i \in 1..(Len(groups[g]) - 1) :
                   input[groups[g][i + 1]] - input[groups[g][i]] \in 0..5
            /\ g > 1 =>
                   input[groups[g][1]]
                       > input[groups[g - 1][Len(groups[g - 1])]] + 5
        /\ Len(input) > 0 =>
               SizeBefore(Len(groups)) + Len(groups[Len(groups)]) = Len(input)
        /\ \A a, b \in Tasks :
               input[a] <= input[b] =>
                   (GroupOf(a) = GroupOf(b) <=> ~NoBridge(a, b))
    /\ (pc = "group" /\ gi > 1) =>
           groups[Len(groups)][Len(groups[Len(groups)])] = sorted_tasks[gi - 1]

\* The groups of a list that was not in date order are complete: a first
\* group of two annotations, 1 to 5 days apart, that came last in the
\* input, and a later group.
MaximalRunsWitness ==
    /\ GroupingDone
    /\ Len(groups) = 2
    /\ Len(groups[1]) = 2
    /\ groups[1][1] > groups[2][1]
    /\ groups[1][2] > groups[2][1]
    /\ input[groups[1][2]] > input[groups[1][1]]

\* p1 and p2 are at a horizontal distance of at least 3 days.
ApartByThree(p1, p2) ==
    HDistNum(p1, p2) >= 3 * p1.x_offset[2] * p2.x_offset[2]

\* C27: an annotation that is a group of its own has base y = 80 and
\* x_offset = 0, is at a horizontal distance of at least 3 days from every
\* other annotation, so collides with none at its base position, and is
\* returned with y = 80 and x_offset = 0.
SingletonsStand ==
    pc = "done" =>
        \A g \in 1..Len(groups) :
            Len(groups[g]) = 1 =>
                LET k == SizeBefore(g) + 1
                IN  /\ base[k].y = 80
                    /\ OffsetIs(base[k].x_offset, 0, 1)
                    /\ \A j \in 1..Len(base) :
                        j # k =>
                            /\ Abs(base[k].end_date - base[j].end_date) > 5
                            /\ ApartByThree(base[k], base[j])
                            /\ ~CheckCollision(base[k], base[j])
                            /\ ~CheckCollision(base[j], base[k])
                            /\ ~CheckCollision(result[k], result[j])
                    /\ report[k] = "clear"
                    /\ result[k].y = 80
                    /\ OffsetIs(result[k].x_offset, 0, 1)
                    /\ result[k].task = groups[g][1]

\* A returned list with a singleton exactly 3 days, horizontally, from a
\* member of a later group of five or more whose base height is within 30
\* of 80, in which some annotation had to be moved.
SingletonWitness ==
    /\ pc = "done"
    /\ \E g \in 1..Len(groups) :
        /\ Len(groups[g]) = 1
        /\ \E j \in 1..Len(base) :
            /\ j > SizeBefore(g) + 1
            /\ HDistNum(base[SizeBefore(g) + 1], base[j])
                   = 3 * base[j].x_offset[2]
            /\ Abs(base[j].y - 80) < 30
            /\ base[j].x_offset[2] >= 4
    /\ \E k \in 1..Len(report) : report[k] = "adjusted"

\* C28: the returned list is the input stably sorted by end date: every
\* input annotation is in it exactly once, with its end date; end dates do
\* not decrease along the list; annotations with equal end dates are in
\* input order; group_id starts at 0 and grows by 0 or 1 from one element
\* to the next.
ReturnedIsStableSort ==
    pc = "done" =>
        /\ Len(result) = Len(input)
        /\ \A t \in Tasks :
               Cardinality({k \in 1..Len(result) : result[k].task = t}) = 1
        /\ \A k \in 1..Len(result) :
               /\ result[k].task \in Tasks
               /\ result[k].end_date = input[result[k].task]
        /\ \A k \in 1..(Len(result) - 1) :
               /\ result[k].end_date <= result[k + 1].end_date
               /\ result[k].end_date = result[k + 1].end_date =>
                      result[k].task < result[k + 1].task
               /\ result[k + 1].group_id - result[k].group_id \in {0, 1}
        /\ Len(result) > 0 => result[1].group_id = 0

\* A returned list for an input that was not in date order and had two
\* annotations with the same end date after an annotation of a later
\* date, in two groups or more, with a moved annotation.
StableSortWitness ==
    /\ pc = "done"
    /\ \E a, b, c \in Tasks :
           a < b /\ b < c /\ input[b] = input[c] /\ input[a] > input[b]
    /\ result[Len(result)].group_id >= 1
    /\ \E k \in 1..Len(report) : report[k] = "adjusted"

\* f = floor(95 - i * 80 / n), for i counted from 0.
IsFloor(f, n, i) ==
    /\ f * n <= 95 * n - 80 * i
    /\ 95 * n - 80 * i < (f + 1) * n

\* The heights of a table are non-increasing, its offsets lie in [-3, 3]
\* and are strictly increasing.
HeightsDescend ==
    \A i \in 1..(Len(heights) - 1) : heights[i] >= heights[i + 1]

OffsetsAscendInSpan ==
    /\ \A i \in 1..Len(offsets) :
           /\ -3 * offsets[i][2] <= offsets[i][1]
           /\ offsets[i][1] <= 3 * offsets[i][2]
    /\ \A i \in 1..(Len(offsets) - 1) :
           offsets[i][1] * offsets[i + 1][2] < offsets[i + 1][1] * offsets[i][2]

\* C29 as stated: every base height lies in [15, 95] and every base offset
\* in [-3, 3]; for n >= 5 every floor(95 - i*80/n) is above 15 and is the
\* height; heights are non-increasing and offsets strictly increasing.
HeightsAboveClamp ==
    /\ heights # <<>> =>
        /\ Len(heights) = group_size
        /\ \A i \in 1..group_size :
            /\ 15 <= heights[i] /\ heights[i] <= 95
            /\ group_size >= 5 =>
                   \E f \in 0..95 :
                       /\ IsFloor(f, group_size, i - 1)
                       /\ f > 15
                       /\ heights[i] = f
        /\ HeightsDescend
    /\ offsets # <<>> =>
        /\ Len(offsets) = group_size
        /\ OffsetsAscendInSpan

\* C29, amended: every base height lies in [15, 95] and every base offset
\* in [-3, 3]; for n >= 5 every floor(95 - i*80/n) is at least 15, and
\* above 15 when n <= 80, so the clamp never changes a height; heights are
\* non-increasing and offsets strictly increasing.
ClampNeverActs ==
    /\ heights # <<>> =>
        /\ Len(heights) = group_size
        /\ \A i \in 1..group_size :
            /\ 15 <= heights[i] /\ heights[i] <= 95
            /\ group_size >= 5 =>
                   \E f \in 0..95 :
                       /\ IsFloor(f, group_size, i - 1)
                       /\ f >= 15
                       /\ group_size <= 80 => f > 15
                       /\ heights[i] = f
        /\ HeightsDescend
    /\ offsets # <<>> =>
        /\ Len(offsets) = group_size
        /\ OffsetsAscendInSpan

\* Both tables of a group of more than 80 were computed: the last height
\* is 15, the floor of a value between 15 and 16, and the offsets run from
\* -3 to 3.
ClampWitness ==
    /\ group_size > 80
    /\ heights # <<>>
    /\ offsets # <<>>
    /\ heights[group_size] = 15
    /\ IsFloor(15, group_size, group_size - 1)
    /\ OffsetIs(offsets[1], -3, 1)
    /\ OffsetIs(offsets[group_size], 3, 1)

\* C30: every call of wrap_text returns, for every text and every
\* max_length, max_length = 0 with a text that is not empty included:
\* every iteration of the forced break leaves a strictly shorter word.
WrapTextReturns ==
    /\ [][(wpc = "force" /\ wpc' = "force") => Len(word') < Len(word)]_vars
    /\ <>(wpc = "returned")

====
